---- MODULE Spec2Model ----
(***************************************************************************)
(* Model of the Global MCP Server control plane:                           *)
(*   ToolRegistry      (mcp_host/global_server/tool_registry.py)           *)
(*   ServiceDiscovery  (mcp_host/global_server/service_discovery.py)       *)
(*   Router            (mcp_host/global_server/router.py)                  *)
(*   GlobalMCPServer   (mcp_host/global_server/server.py)                  *)
(*                                                                         *)
(* Each object is a record holding the object's fields under their source  *)
(* names.  Each method is an operator from the object's state and the      *)
(* call's arguments to the state after the call (and the returned value),  *)
(* and an action applies it.  Python dicts are functions whose DOMAIN is   *)
(* the set of keys; Python lists are sequences; Python sets are sets.      *)
(***************************************************************************)
EXTENDS Integers, Sequences, FiniteSets, TLC

\* ---------------------------------------------------------------- bounds
MaxServers == 2
MaxTools == 2
MaxTime == 1
MaxTimeout == 0
MaxLoad == 2
MaxRoutedLoad == 1
MaxPicks == 3
MaxListLen == 2
MaxTasks == 2
MaxFailures == 1

\* ------------------------------------------------------------- constants
\* seconds slept between two iterations of the health check loop
HealthCheckInterval == 60
\* seconds slept after an iteration that raised
ErrorBackoff == 10

\* ------------------------------------------------------------ input sets
\* Server ids and tool ids are opaque strings in the code ("srv_<hex>",
\* "tool_<hex>", or whatever the caller puts in ToolMetadata.server_id);
\* here they are numbers and None (Python's None, and every other falsy
\* server_id such as "") is 0.
None == 0
ServerIds == 1..MaxServers
ToolIds == 1..MaxTools
Times == 0..MaxTime
\* heartbeat_timeout is taken as given by the constructors (no validation)
Timeouts == 0..MaxTimeout

\* Names are sequences of characters, so that lower() and the substring
\* test of find_tools are computed and not assumed.
Names == { <<"s">>, <<"S", "u">> }
\* name_pattern arguments of find_tools: << >> is None (and ""), "u" is a
\* proper substring of a name
NamePatterns == Names \cup { << >>, <<"u">> }
Tags == { "x", "y" }
\* "other" stands for every strategy string the code does not recognise
Strategies == { "round_robin", "random", "least_loaded", "other" }

\* Inputs of ToolRegistry.register_tool: the fields of ToolMetadata the
\* registry, the router and find_tools read.
ToolMetadata == [ name : Names, tags : SUBSET Tags, server_id : ServerIds \cup {None} ]

\* ------------------------------------------------------- dict primitives
\* d[k] = v
DictPut(d, k, v) == [ x \in (DOMAIN d) \cup {k} |-> IF x = k THEN v ELSE d[x] ]
\* del d[k]
DictDel(d, k) == [ x \in (DOMAIN d) \ {k} |-> d[x] ]
\* d.get(k, default)
DictGet(d, k, default) == IF k \in DOMAIN d THEN d[k] ELSE default
\* {}
EmptyDict == << >>

\* ------------------------------------------------------- list primitives
\* x in lst
InList(lst, x) == \E i \in 1..Len(lst) : lst[i] = x
RECURSIVE ListRemove(_, _)
\* lst.remove(x): removes the FIRST occurrence of x (x is known to occur)
ListRemove(lst, x) ==
  IF lst = << >> THEN << >>
  ELSE IF Head(lst) = x THEN Tail(lst)
  ELSE << Head(lst) >> \o ListRemove(Tail(lst), x)
\* lst[1:]
ListRest(lst) == IF lst = << >> THEN << >> ELSE Tail(lst)

\* ---------------------------------------------------------------- strings
\* str.lower() on the alphabet of Names
LowerChar(c) == IF c = "S" THEN "s" ELSE IF c = "U" THEN "u" ELSE c
Lower(str) == [ i \in 1..Len(str) |-> LowerChar(str[i]) ]
\* a in b, for strings
IsSubstring(a, b) ==
  \E k \in 0..(Len(b) - Len(a)) : \A i \in 1..Len(a) : b[k + i] = a[i]

\* =========================================================== ToolRegistry
\* ToolRegistry.__init__
ToolRegistry_init == [ tools |-> EmptyDict, server_tools |-> EmptyDict, tags_index |-> EmptyDict ]

\* ToolRegistry.register_tool: store the record under the new id, add the
\* id to the server index (when server_id is truthy) and to every tag's set.
ToolRegistry_register_tool(reg, tool_id, meta) ==
  [ tools |-> DictPut(reg.tools, tool_id, meta),
    server_tools |->
      IF meta.server_id # None
      THEN DictPut(reg.server_tools, meta.server_id,
                   DictGet(reg.server_tools, meta.server_id, {}) \cup {tool_id})
      ELSE reg.server_tools,
    tags_index |->
      [ t \in (DOMAIN reg.tags_index) \cup meta.tags |->
          IF t \in meta.tags
          THEN DictGet(reg.tags_index, t, {}) \cup {tool_id}
          ELSE reg.tags_index[t] ] ]

\* unregister_tool that forgets the tags index
ToolRegistry_unregister_tool_KeepsTags(reg, tool_id) ==
  IF tool_id \notin DOMAIN reg.tools
  THEN [ registry |-> reg, result |-> FALSE ]
  ELSE
    LET tool == reg.tools[tool_id]
        st == reg.server_tools
        st1 == IF tool.server_id # None /\ tool.server_id \in DOMAIN st
               THEN IF st[tool.server_id] \ {tool_id} = {}
                    THEN DictDel(st, tool.server_id)
                    ELSE DictPut(st, tool.server_id, st[tool.server_id] \ {tool_id})
               ELSE st
    IN [ registry |-> [ tools |-> DictDel(reg.tools, tool_id),
                        server_tools |-> st1,
                        tags_index |-> reg.tags_index ],
         result |-> TRUE ]

\* ToolRegistry.unregister_tool: False for an unknown id; otherwise discard
\* the id from its server's set and its tags' sets, deleting a set that
\* becomes empty, and delete the record.
ToolRegistry_unregister_tool(reg, tool_id) ==
  IF tool_id \notin DOMAIN reg.tools
  THEN [ registry |-> reg, result |-> FALSE ]
  ELSE
    LET tool == reg.tools[tool_id]
        st == reg.server_tools
        ti == reg.tags_index
        st1 == IF tool.server_id # None /\ tool.server_id \in DOMAIN st
               THEN IF st[tool.server_id] \ {tool_id} = {}
                    THEN DictDel(st, tool.server_id)
                    ELSE DictPut(st, tool.server_id, st[tool.server_id] \ {tool_id})
               ELSE st
        ti1 == [ t \in { u \in DOMAIN ti : ~(u \in tool.tags /\ ti[u] \ {tool_id} = {}) } |->
                   IF t \in tool.tags THEN ti[t] \ {tool_id} ELSE ti[t] ]
    IN [ registry |-> [ tools |-> DictDel(reg.tools, tool_id),
                        server_tools |-> st1,
                        tags_index |-> ti1 ],
         result |-> TRUE ]

\* ToolRegistry.get_server_tools, as the set of ids of the returned records
ToolRegistry_get_server_tools(reg, server_id) ==
  IF server_id \notin DOMAIN reg.server_tools THEN {} ELSE reg.server_tools[server_id]

\* ToolRegistry.get_all_tools, as the set of ids of the returned records
ToolRegistry_get_all_tools(reg) == DOMAIN reg.tools

\* ToolRegistry.find_tools, as the set of ids of the returned records.
\* Falsy tags (None or []) are {}, a falsy server_id is None, a falsy
\* name_pattern is << >>.  The server filter is applied only when the id
\* is a key of the server index; a tag that is no key of the tag index
\* ends the call with [].
ToolRegistry_find_tools(reg, tags, server_id, name_pattern) ==
  LET all == DOMAIN reg.tools
      by_server == IF server_id # None /\ server_id \in DOMAIN reg.server_tools
                   THEN all \cap reg.server_tools[server_id]
                   ELSE all
      by_tags == { t \in by_server : \A tag \in tags : t \in reg.tags_index[tag] }
      name_lower == Lower(name_pattern)
  IN IF \E tag \in tags : tag \notin DOMAIN reg.tags_index
     THEN {}
     ELSE IF name_pattern # << >>
     THEN { t \in by_tags : IsSubstring(name_lower, Lower(reg.tools[t].name)) }
     ELSE by_tags

\* ======================================================= ServiceDiscovery
\* ServiceDiscovery.__init__
ServiceDiscovery_init(timeout) ==
  [ servers |-> EmptyDict, tags_index |-> EmptyDict, heartbeat_timeout |-> timeout ]

\* ServiceDiscovery.register_server: the record starts active with
\* last_heartbeat = utcnow(); every tag's set gains the id.
ServiceDiscovery_register_server(sd, server_id, tags, time) ==
  [ sd EXCEPT
      !.servers = DictPut(sd.servers, server_id,
                          [ last_heartbeat |-> time, tags |-> tags, is_active |-> TRUE ]),
      !.tags_index =
         [ t \in (DOMAIN sd.tags_index) \cup tags |->
             IF t \in tags THEN DictGet(sd.tags_index, t, {}) \cup {server_id}
             ELSE sd.tags_index[t] ] ]

\* unregister_server that discards the id but never deletes a tag's set
ServiceDiscovery_unregister_server_KeepsEmptyTags(sd, server_id) ==
  IF server_id \notin DOMAIN sd.servers
  THEN [ discovery |-> sd, result |-> FALSE ]
  ELSE
    LET server == sd.servers[server_id]
        ti == sd.tags_index
    IN [ discovery |->
           [ sd EXCEPT
               !.tags_index =
                  [ t \in DOMAIN ti |->
                      IF t \in server.tags THEN ti[t] \ {server_id} ELSE ti[t] ],
               !.servers = DictDel(sd.servers, server_id) ],
         result |-> TRUE ]

\* ServiceDiscovery.unregister_server
ServiceDiscovery_unregister_server(sd, server_id) ==
  IF server_id \notin DOMAIN sd.servers
  THEN [ discovery |-> sd, result |-> FALSE ]
  ELSE
    LET server == sd.servers[server_id]
        ti == sd.tags_index
    IN [ discovery |->
           [ sd EXCEPT
               !.tags_index =
                  [ t \in { u \in DOMAIN ti : ~(u \in server.tags /\ ti[u] \ {server_id} = {}) } |->
                      IF t \in server.tags THEN ti[t] \ {server_id} ELSE ti[t] ],
               !.servers = DictDel(sd.servers, server_id) ],
         result |-> TRUE ]

\* record_heartbeat that creates a record for an id it does not know
ServiceDiscovery_record_heartbeat_Upserts(sd, server_id, time) ==
  [ discovery |->
      [ sd EXCEPT !.servers =
          DictPut(sd.servers, server_id,
                  [ last_heartbeat |-> time,
                    tags |-> IF server_id \in DOMAIN sd.servers
                             THEN sd.servers[server_id].tags ELSE {},
                    is_active |-> TRUE ]) ],
    result |-> TRUE ]

\* record_heartbeat that also applies the timeout test to every record
ServiceDiscovery_record_heartbeat_ChecksOthers(sd, server_id, time) ==
  IF server_id \notin DOMAIN sd.servers
  THEN [ discovery |-> sd, result |-> FALSE ]
  ELSE [ discovery |->
           [ sd EXCEPT !.servers =
               [ s \in DOMAIN sd.servers |->
                   IF s = server_id
                   THEN [ sd.servers[s] EXCEPT !.last_heartbeat = time, !.is_active = TRUE ]
                   ELSE IF time - sd.servers[s].last_heartbeat > sd.heartbeat_timeout
                        THEN [ sd.servers[s] EXCEPT !.is_active = FALSE ]
                        ELSE sd.servers[s] ] ],
         result |-> TRUE ]

\* record_heartbeat that only stamps the time and leaves the flag
ServiceDiscovery_record_heartbeat_StampOnly(sd, server_id, time) ==
  IF server_id \notin DOMAIN sd.servers
  THEN [ discovery |-> sd, result |-> FALSE ]
  ELSE [ discovery |-> [ sd EXCEPT !.servers[server_id].last_heartbeat = time ],
         result |-> TRUE ]

\* record_heartbeat that stamps the record of every server
ServiceDiscovery_record_heartbeat_StampsAll(sd, server_id, time) ==
  IF server_id \notin DOMAIN sd.servers
  THEN [ discovery |-> sd, result |-> FALSE ]
  ELSE [ discovery |->
           [ sd EXCEPT !.servers =
               [ s \in DOMAIN sd.servers |->
                   IF s = server_id
                   THEN [ sd.servers[s] EXCEPT !.last_heartbeat = time, !.is_active = TRUE ]
                   ELSE [ sd.servers[s] EXCEPT !.last_heartbeat = time ] ] ],
         result |-> TRUE ]

\* ServiceDiscovery.record_heartbeat
ServiceDiscovery_record_heartbeat(sd, server_id, time) ==
  IF server_id \notin DOMAIN sd.servers
  THEN [ discovery |-> sd, result |-> FALSE ]
  ELSE [ discovery |->
           [ sd EXCEPT !.servers[server_id].last_heartbeat = time,
                       !.servers[server_id].is_active = TRUE ],
         result |-> TRUE ]

\* check_health that already flags a record whose age equals the timeout
ServiceDiscovery_check_health_AtTimeout(sd, time) ==
  [ sd EXCEPT !.servers =
      [ s \in DOMAIN sd.servers |->
          IF time - sd.servers[s].last_heartbeat >= sd.heartbeat_timeout
          THEN [ sd.servers[s] EXCEPT !.is_active = FALSE ]
          ELSE sd.servers[s] ] ]

\* check_health that deletes a stale record instead of flagging it
ServiceDiscovery_check_health_DropsStale(sd, time) ==
  [ sd EXCEPT !.servers =
      [ s \in { x \in DOMAIN sd.servers :
                  ~(time - sd.servers[x].last_heartbeat > sd.heartbeat_timeout) } |->
          sd.servers[s] ] ]

\* ServiceDiscovery.check_health: a record whose heartbeat is older than
\* the timeout is flagged inactive; every other record is left as it is.
ServiceDiscovery_check_health(sd, time) ==
  [ sd EXCEPT !.servers =
      [ s \in DOMAIN sd.servers |->
          IF time - sd.servers[s].last_heartbeat > sd.heartbeat_timeout
          THEN [ sd.servers[s] EXCEPT !.is_active = FALSE ]
          ELSE sd.servers[s] ] ]

\* "server = get_server(server_id); server and server.is_active": the id has
\* a record and the record's flag is set
ServiceDiscovery_is_live(sd, server_id) ==
  server_id \in DOMAIN sd.servers /\ sd.servers[server_id].is_active

\* ServiceDiscovery.get_all_servers, as the set of ids of the returned records
ServiceDiscovery_get_all_servers(sd, active_only) ==
  IF active_only THEN { s \in DOMAIN sd.servers : sd.servers[s].is_active }
  ELSE DOMAIN sd.servers

\* ================================================================= Router
\* Router.__init__
Router_init == [ tool_to_servers |-> EmptyDict, server_load |-> EmptyDict ]

\* Router.update_tool_mapping
Router_update_tool_mapping(r, tool_name, server_id) ==
  LET lst == DictGet(r.tool_to_servers, tool_name, << >>)
  IN IF ~InList(lst, server_id)
     THEN [ tool_to_servers |-> DictPut(r.tool_to_servers, tool_name, Append(lst, server_id)),
            server_load |-> DictPut(r.server_load, server_id, DictGet(r.server_load, server_id, 0)) ]
     ELSE r

\* Router.remove_tool_mapping
Router_remove_tool_mapping(r, tool_name, server_id) ==
  IF tool_name \in DOMAIN r.tool_to_servers /\ InList(r.tool_to_servers[tool_name], server_id)
  THEN LET lst == ListRemove(r.tool_to_servers[tool_name], server_id)
       IN IF lst = << >>
          THEN [ r EXCEPT !.tool_to_servers = DictDel(r.tool_to_servers, tool_name) ]
          ELSE [ r EXCEPT !.tool_to_servers = DictPut(r.tool_to_servers, tool_name, lst) ]
  ELSE r

\* Router.remove_server_mappings: one list.remove per tool whose list holds
\* the id, the tool's entry deleted when its list becomes empty, the load
\* counter deleted.  result is the returned list of tool names, as a set
\* (the loop appends each name at most once).
Router_remove_server_mappings(r, server_id) ==
  LET t2s == r.tool_to_servers
      affected_tools == { n \in DOMAIN t2s : InList(t2s[n], server_id) }
      after(n) == IF n \in affected_tools THEN ListRemove(t2s[n], server_id) ELSE t2s[n]
  IN [ router |->
         [ tool_to_servers |-> [ n \in { m \in DOMAIN t2s : after(m) # << >> } |-> after(n) ],
           server_load |-> IF server_id \in DOMAIN r.server_load
                           THEN DictDel(r.server_load, server_id)
                           ELSE r.server_load ],
       result |-> affected_tools ]

\* Router.get_server_load
Router_get_server_load(r, server_id) == DictGet(r.server_load, server_id, 0)

\* Router.get_tool_servers
Router_get_tool_servers(r, tool_name) == DictGet(r.tool_to_servers, tool_name, << >>)

\* available_servers that looks at the head of the candidate list only
AvailableServers_HeadOnly(r, sd, tool_name) ==
  LET lst == r.tool_to_servers[tool_name]
  IN IF lst # << >> /\ ServiceDiscovery_is_live(sd, lst[1]) THEN << lst[1] >> ELSE << >>

\* available_servers that tests only that the record exists
AvailableServers_AnyRecord(r, sd, tool_name) ==
  SelectSeq(r.tool_to_servers[tool_name], LAMBDA s : s \in DOMAIN sd.servers)

\* available_servers of Router.get_server_for_tool: the tool's candidates
\* that have a record in ServiceDiscovery whose flag is set, in list order
AvailableServers(r, sd, tool_name) ==
  SelectSeq(r.tool_to_servers[tool_name], LAMBDA s : ServiceDiscovery_is_live(sd, s))

RECURSIVE MinIndexFrom(_, _, _, _)
\* min(available_servers, key=load): the scan keeps the element seen first
\* among those with the smallest key (a later one replaces it only when
\* strictly smaller).  best is the index kept so far, i the next to look at.
MinIndexFrom(r, available, best, i) ==
  IF i > Len(available) THEN best
  ELSE IF Router_get_server_load(r, available[i]) < Router_get_server_load(r, available[best])
       THEN MinIndexFrom(r, available, i, i + 1)
       ELSE MinIndexFrom(r, available, best, i + 1)

\* a minimum that keeps the element seen last among the least loaded
LeastLoaded_LastOfTies(r, available) ==
  available[CHOOSE i \in 1..Len(available) :
              /\ \A j \in 1..Len(available) :
                   DictGet(r.server_load, available[i], 0) <= DictGet(r.server_load, available[j], 0)
              /\ \A j \in (i + 1)..Len(available) :
                   DictGet(r.server_load, available[i], 0) < DictGet(r.server_load, available[j], 0)]

\* the element min() returns
LeastLoaded(r, available) == available[MinIndexFrom(r, available, 1, 2)]

\* a round_robin branch that leaves the list as it is
RoundRobinRotate_NoRotation(lst, server_id) == lst

\* the round_robin branch's new list: tool_to_servers[tool_name][1:] + [server_id]
RoundRobinRotate(lst, server_id) == ListRest(lst) \o << server_id >>

\* an increment that forgets the counter's value and stores 1
IncrementLoad_StoresOne(r, server_id) == DictPut(r.server_load, server_id, 1)

\* the load counter after "load[server_id] = load.get(server_id, 0) + 1"
IncrementLoad(r, server_id) ==
  DictPut(r.server_load, server_id, DictGet(r.server_load, server_id, 0) + 1)

\* get_server_for_tool that rotates the candidate list before it finds that
\* no candidate is available
Router_get_server_for_tool_RotatesOnMiss(r, sd, tool_name, strategy) ==
  IF tool_name \in DOMAIN r.tool_to_servers /\ AvailableServers(r, sd, tool_name) = << >>
  THEN { [ router |-> [ r EXCEPT !.tool_to_servers[tool_name] =
                                   ListRest(@) \o << Head(@) >> ],
           result |-> None ] }
  ELSE
    IF tool_name \notin DOMAIN r.tool_to_servers
    THEN { [ router |-> r, result |-> None ] }
    ELSE
      LET available_servers == AvailableServers(r, sd, tool_name)
          chosen(server_id) == [ router |-> [ r EXCEPT !.server_load = IncrementLoad(r, server_id) ],
                                 result |-> server_id ]
      IN IF available_servers = << >>
         THEN { [ router |-> r, result |-> None ] }
         ELSE IF strategy = "round_robin"
         THEN LET server_id == available_servers[1]
              IN { [ router |->
                       [ tool_to_servers |->
                           DictPut(r.tool_to_servers, tool_name,
                                   RoundRobinRotate(r.tool_to_servers[tool_name], server_id)),
                         server_load |-> IncrementLoad(r, server_id) ],
                     result |-> server_id ] }
         ELSE IF strategy = "random"
         THEN { chosen(available_servers[i]) : i \in 1..Len(available_servers) }
         ELSE IF strategy = "least_loaded"
         THEN { chosen(LeastLoaded(r, available_servers)) }
         ELSE { chosen(available_servers[1]) }

\* get_server_for_tool that returns None for a strategy it does not know
Router_get_server_for_tool_RejectsUnknownStrategy(r, sd, tool_name, strategy) ==
  IF tool_name \notin DOMAIN r.tool_to_servers
  THEN { [ router |-> r, result |-> None ] }
  ELSE
    LET available_servers == AvailableServers(r, sd, tool_name)
        chosen(server_id) == [ router |-> [ r EXCEPT !.server_load = IncrementLoad(r, server_id) ],
                               result |-> server_id ]
    IN IF available_servers = << >>
       THEN { [ router |-> r, result |-> None ] }
       ELSE IF strategy = "round_robin"
       THEN LET server_id == available_servers[1]
            IN { [ router |->
                     [ tool_to_servers |->
                         DictPut(r.tool_to_servers, tool_name,
                                 RoundRobinRotate(r.tool_to_servers[tool_name], server_id)),
                       server_load |-> IncrementLoad(r, server_id) ],
                   result |-> server_id ] }
       ELSE IF strategy = "random"
       THEN { chosen(available_servers[i]) : i \in 1..Len(available_servers) }
       ELSE IF strategy = "least_loaded"
       THEN { chosen(LeastLoaded(r, available_servers)) }
       ELSE { [ router |-> r, result |-> None ] }

\* get_server_for_tool that rotates the candidate list under every strategy
Router_get_server_for_tool_AlwaysRotates(r, sd, tool_name, strategy) ==
  IF tool_name \notin DOMAIN r.tool_to_servers
  THEN { [ router |-> r, result |-> None ] }
  ELSE
    LET available_servers == AvailableServers(r, sd, tool_name)
        chosen(server_id) ==
          [ router |->
              [ tool_to_servers |->
                  DictPut(r.tool_to_servers, tool_name,
                          RoundRobinRotate(r.tool_to_servers[tool_name], server_id)),
                server_load |-> IncrementLoad(r, server_id) ],
            result |-> server_id ]
    IN IF available_servers = << >>
       THEN { [ router |-> r, result |-> None ] }
       ELSE IF strategy = "round_robin"
       THEN LET server_id == available_servers[1]
            IN { [ router |->
                     [ tool_to_servers |->
                         DictPut(r.tool_to_servers, tool_name,
                                 RoundRobinRotate(r.tool_to_servers[tool_name], server_id)),
                       server_load |-> IncrementLoad(r, server_id) ],
                   result |-> server_id ] }
       ELSE IF strategy = "random"
       THEN { chosen(available_servers[i]) : i \in 1..Len(available_servers) }
       ELSE IF strategy = "least_loaded"
       THEN { chosen(LeastLoaded(r, available_servers)) }
       ELSE { chosen(available_servers[1]) }

\* Router.get_server_for_tool: the set of possible outcomes of one call,
\* each the router after the call and the returned server id (None when
\* the call returns None).  Only random.choice has more than one outcome.
Router_get_server_for_tool(r, sd, tool_name, strategy) ==
  IF tool_name \notin DOMAIN r.tool_to_servers
  THEN { [ router |-> r, result |-> None ] }
  ELSE
    LET available_servers == AvailableServers(r, sd, tool_name)
        chosen(server_id) == [ router |-> [ r EXCEPT !.server_load = IncrementLoad(r, server_id) ],
                               result |-> server_id ]
    IN IF available_servers = << >>
       THEN { [ router |-> r, result |-> None ] }
       ELSE IF strategy = "round_robin"
       THEN LET server_id == available_servers[1]
            IN { [ router |->
                     [ tool_to_servers |->
                         DictPut(r.tool_to_servers, tool_name,
                                 RoundRobinRotate(r.tool_to_servers[tool_name], server_id)),
                       server_load |-> IncrementLoad(r, server_id) ],
                   result |-> server_id ] }
       ELSE IF strategy = "random"
       THEN { chosen(available_servers[i]) : i \in 1..Len(available_servers) }
       ELSE IF strategy = "least_loaded"
       THEN { chosen(LeastLoaded(r, available_servers)) }
       ELSE { chosen(available_servers[1]) }

\* record_tool_completion without the "> 0" test
Router_record_tool_completion_Unguarded(r, server_id) ==
  IF server_id \in DOMAIN r.server_load
  THEN [ r EXCEPT !.server_load[server_id] = @ - 1 ]
  ELSE r

\* Router.record_tool_completion
Router_record_tool_completion(r, server_id) ==
  IF server_id \in DOMAIN r.server_load /\ r.server_load[server_id] > 0
  THEN [ r EXCEPT !.server_load[server_id] = @ - 1 ]
  ELSE r

\* ======================================================== GlobalMCPServer
\* GlobalMCPServer.find_tools, as the set of ids of the returned records.
\* A falsy name_pattern (None or "") is << >>, falsy tags (None or []) are
\* {}, a falsy server_id is None.
GlobalMCPServer_find_tools(reg, name_pattern, tags, server_id) ==
  LET tools == IF server_id # None
               THEN ToolRegistry_get_server_tools(reg, server_id)
               ELSE ToolRegistry_get_all_tools(reg)
      name_lower == Lower(name_pattern)
  IN IF name_pattern # << >> \/ tags # {}
     THEN { t \in tools :
              /\ ~(name_pattern # << >> /\ ~IsSubstring(name_lower, Lower(reg.tools[t].name)))
              /\ ~(tags # {} /\ ~(\A tag \in tags : tag \in reg.tools[t].tags)) }
     ELSE tools

\* GlobalMCPServer.register_tool: the registry's register_tool, then the
\* router's update_tool_mapping when the record has a server id
GlobalMCPServer_register_tool(reg, r, tool_id, meta) ==
  [ registry |-> ToolRegistry_register_tool(reg, tool_id, meta),
    router |-> IF meta.server_id # None
               THEN Router_update_tool_mapping(r, meta.name, meta.server_id)
               ELSE r ]

\* GlobalMCPServer.unregister_tool
GlobalMCPServer_unregister_tool(reg, r, tool_id) ==
  IF tool_id \notin DOMAIN reg.tools
  THEN [ registry |-> reg, router |-> r, result |-> FALSE ]
  ELSE LET tool == reg.tools[tool_id]
           un == ToolRegistry_unregister_tool(reg, tool_id)
       IN [ registry |-> un.registry,
            router |-> IF tool.server_id # None
                       THEN Router_remove_tool_mapping(r, tool.name, tool.server_id)
                       ELSE r,
            result |-> un.result ]

\* GlobalMCPServer.unregister_server: the router's remove_server_mappings
\* first, then the discovery's unregister_server, whose result is returned
GlobalMCPServer_unregister_server(sd, r, server_id) ==
  LET rm == Router_remove_server_mappings(r, server_id)
      un == ServiceDiscovery_unregister_server(sd, server_id)
  IN [ discovery |-> un.discovery, router |-> rm.router,
       result |-> un.result, affected_tools |-> rm.result ]

\* GlobalMCPServer.route_tool_request: the set of possible outcomes, each
\* the router after the call, the returned server id (None when the call
\* raises) and the name of the raised error ("" when it returns).
GlobalMCPServer_route_tool_request(reg, sd, r, tool_name, strategy) ==
  IF GlobalMCPServer_find_tools(reg, tool_name, {}, None) = {}
  THEN { [ router |-> r, result |-> None, error |-> "ToolNotFoundError" ] }
  ELSE { [ router |-> o.router, result |-> o.result,
           error |-> IF o.result = None THEN "ServerNotFoundError" ELSE "" ] :
         o \in Router_get_server_for_tool(r, sd, tool_name, strategy) }

RECURSIVE RemoveInactive(_, _)
\* the purge loop of _health_check_loop: remove_server_mappings for every
\* server of the given set (the inactive ones)
RemoveInactive(r, inactive) ==
  IF inactive = {} THEN r
  ELSE LET s == CHOOSE x \in inactive : TRUE
       IN RemoveInactive(Router_remove_server_mappings(r, s).router, inactive \ {s})

\* an iteration that checks health and purges nothing from the router
HealthCheckIteration_NoPurge(sd, r, time) ==
  [ discovery |-> ServiceDiscovery_check_health(sd, time), router |-> r ]

\* One iteration of GlobalMCPServer._health_check_loop up to its sleep:
\* check_health, then remove_server_mappings for every record that is not
\* active.  There is no await between the two, so the iteration is one step.
\* The removals of different servers commute, so the order of the loop over
\* the records does not show in the result.
HealthCheckIteration(sd, r, time) ==
  LET sd1 == ServiceDiscovery_check_health(sd, time)
      inactive == { s \in ServiceDiscovery_get_all_servers(sd1, FALSE) : ~sd1.servers[s].is_active }
  IN [ discovery |-> sd1, router |-> RemoveInactive(r, inactive) ]

\* ================================================================== state
VARIABLES
  tool_registry,      \* GlobalMCPServer.tool_registry
  service_discovery,  \* GlobalMCPServer.service_discovery
  router,             \* GlobalMCPServer.router
  now,                \* datetime.utcnow()
  last,               \* the last call: its name, arguments and returned value
  rr_run,             \* the current run of consecutive round_robin selections
  running,            \* GlobalMCPServer._running
  health_check_task,  \* GlobalMCPServer._health_check_task: None or a task
  tasks,              \* the tasks created so far, each a run of _health_check_loop
  stops,              \* the tasks awaited by calls of stop() that have not returned
  failures            \* the number of iterations of the loop that raised

\* the state of GlobalMCPServer's start/stop and of its background tasks
lifecycle == << running, health_check_task, tasks, stops, failures >>

vars == << tool_registry, service_discovery, router, now, last, rr_run,
           running, health_check_task, tasks, stops, failures >>

NoCall ==
  [ op |-> "none", name |-> << >>, strategy |-> "", server |-> None,
    result |-> None, ok |-> FALSE, affected |-> {}, error |-> "",
    pre_load |-> 0, pre_active |-> FALSE ]

NoRun == [ name |-> << >>, start |-> << >>, picks |-> << >> ]

\* the run of round_robin selections after one more selection on tool_name
\* that returned server_id, the tool's list having been lst before it
NextRun(tool_name, lst, server_id) ==
  IF rr_run.name = tool_name /\ rr_run.picks # << >> /\ Len(rr_run.picks) < MaxPicks
  THEN [ rr_run EXCEPT !.picks = Append(@, server_id) ]
  ELSE [ name |-> tool_name, start |-> lst, picks |-> << server_id >> ]

Init ==
  /\ tool_registry = ToolRegistry_init
  /\ \E timeout \in Timeouts : service_discovery = ServiceDiscovery_init(timeout)
  /\ router = Router_init
  /\ now = 0
  /\ last = NoCall
  /\ rr_run = NoRun
  /\ running = FALSE
  /\ health_check_task = None
  /\ tasks = << >>
  /\ stops = {}
  /\ failures = 0

\* time passes
Tick ==
  /\ now < MaxTime
  /\ now' = now + 1
  /\ UNCHANGED << tool_registry, service_discovery, router, last, rr_run >>
  /\ UNCHANGED lifecycle

\* the load counters stay within the model's bound (MaxLoad for calls on
\* the Router, MaxRoutedLoad for calls on GlobalMCPServer)
LoadBounded(r, max) == \A s \in DOMAIN r.server_load : r.server_load[s] <= max

\* the candidate lists stay within the model's bound
ListsBounded(r) == \A n \in DOMAIN r.tool_to_servers : Len(r.tool_to_servers[n]) <= MaxListLen

\* ------------------------------------------------- calls on ToolRegistry
\* The id is "tool_" + uuid4().hex[:8]: any id that names no registered tool.
Call_ToolRegistry_register_tool(tool_id, meta) ==
  /\ tool_id \notin DOMAIN tool_registry.tools
  /\ tool_registry' = ToolRegistry_register_tool(tool_registry, tool_id, meta)
  /\ last' = [ NoCall EXCEPT !.op = "ToolRegistry.register_tool" ]
  /\ rr_run' = NoRun
  /\ UNCHANGED << service_discovery, router, now >>
  /\ UNCHANGED lifecycle

Call_ToolRegistry_unregister_tool(tool_id) ==
  LET un == ToolRegistry_unregister_tool(tool_registry, tool_id)
  IN /\ tool_registry' = un.registry
     /\ last' = [ NoCall EXCEPT !.op = "ToolRegistry.unregister_tool", !.ok = un.result ]
     /\ rr_run' = NoRun
     /\ UNCHANGED << service_discovery, router, now >>
     /\ UNCHANGED lifecycle

\* ToolRegistry.find_tools reads the registry; the returned ids are kept
Call_ToolRegistry_find_tools(tags, server_id, name_pattern) ==
  /\ last' = [ NoCall EXCEPT !.op = "ToolRegistry.find_tools",
                             !.affected = ToolRegistry_find_tools(tool_registry, tags,
                                                                  server_id, name_pattern) ]
  /\ rr_run' = NoRun
  /\ UNCHANGED << tool_registry, service_discovery, router, now >>
  /\ UNCHANGED lifecycle

\* GlobalMCPServer.find_tools reads the registry; the returned ids are kept
Call_find_tools(name_pattern, tags, server_id) ==
  /\ last' = [ NoCall EXCEPT !.op = "find_tools",
                             !.affected = GlobalMCPServer_find_tools(tool_registry, name_pattern,
                                                                     tags, server_id) ]
  /\ rr_run' = NoRun
  /\ UNCHANGED << tool_registry, service_discovery, router, now >>
  /\ UNCHANGED lifecycle

\* --------------------------------------------- calls on ServiceDiscovery
\* (GlobalMCPServer.register_server and GlobalMCPServer.record_heartbeat
\* only delegate to these).  The id is "srv_" + uuid4().hex[:8]: any id that
\* names no registered server.
Call_register_server(server_id, tags) ==
  /\ server_id \notin DOMAIN service_discovery.servers
  /\ service_discovery' = ServiceDiscovery_register_server(service_discovery, server_id, tags, now)
  /\ last' = [ NoCall EXCEPT !.op = "register_server" ]
  /\ rr_run' = NoRun
  /\ UNCHANGED << tool_registry, router, now >>
  /\ UNCHANGED lifecycle

Call_ServiceDiscovery_unregister_server(server_id) ==
  LET un == ServiceDiscovery_unregister_server(service_discovery, server_id)
  IN /\ service_discovery' = un.discovery
     /\ last' = [ NoCall EXCEPT !.op = "ServiceDiscovery.unregister_server", !.ok = un.result ]
     /\ rr_run' = NoRun
     /\ UNCHANGED << tool_registry, router, now >>
     /\ UNCHANGED lifecycle

Call_record_heartbeat(server_id) ==
  LET hb == ServiceDiscovery_record_heartbeat(service_discovery, server_id, now)
  IN /\ service_discovery' = hb.discovery
     /\ last' = [ NoCall EXCEPT !.op = "record_heartbeat", !.ok = hb.result,
                                !.pre_active = ServiceDiscovery_is_live(service_discovery, server_id) ]
     /\ rr_run' = NoRun
     /\ UNCHANGED << tool_registry, router, now >>
     /\ UNCHANGED lifecycle

Call_ServiceDiscovery_check_health ==
  /\ service_discovery' = ServiceDiscovery_check_health(service_discovery, now)
  /\ last' = [ NoCall EXCEPT !.op = "ServiceDiscovery.check_health" ]
  /\ rr_run' = NoRun
  /\ UNCHANGED << tool_registry, router, now >>
  /\ UNCHANGED lifecycle

\* The name argument of register_server for the server that receives the
\* given id (a name is stored at registration and never changed).
ServerName(server_id) == IF server_id = 1 THEN << "s" >> ELSE << "S", "u" >>

\* find_servers that tests the heartbeat's age instead of the stored flag
ServiceDiscovery_find_servers_RecomputesLiveness(sd, tags, name_pattern, active_only) ==
  LET servers == { s \in DOMAIN sd.servers :
                     ~active_only \/ now - sd.servers[s].last_heartbeat <= sd.heartbeat_timeout }
      by_tags == IF tags # {}
                 THEN { s \in servers : \A t \in tags : s \in DictGet(sd.tags_index, t, {}) }
                 ELSE servers
  IN IF name_pattern # << >>
     THEN { s \in by_tags : IsSubstring(Lower(name_pattern), Lower(ServerName(s))) }
     ELSE by_tags

\* ServiceDiscovery.find_servers, as the set of ids of the returned records:
\* the records (the active ones if active_only), then the ids in every
\* tag's set of the index, then the case-insensitive substring test.
ServiceDiscovery_find_servers(sd, tags, name_pattern, active_only) ==
  LET servers == { s \in DOMAIN sd.servers : ~active_only \/ sd.servers[s].is_active }
      by_tags == IF tags # {}
                 THEN { s \in servers : \A t \in tags : s \in DictGet(sd.tags_index, t, {}) }
                 ELSE servers
  IN IF name_pattern # << >>
     THEN { s \in by_tags : IsSubstring(Lower(name_pattern), Lower(ServerName(s))) }
     ELSE by_tags

\* ServiceDiscovery.get_server: the id of the returned record, None if the
\* id has no record
ServiceDiscovery_get_server(sd, server_id) ==
  IF server_id \in DOMAIN sd.servers THEN server_id ELSE None

Call_find_servers(tags, name_pattern, active_only) ==
  /\ last' = [ NoCall EXCEPT !.op = "find_servers", !.ok = active_only,
                             !.affected = ServiceDiscovery_find_servers(service_discovery, tags,
                                                                        name_pattern, active_only) ]
  /\ rr_run' = NoRun
  /\ UNCHANGED << tool_registry, service_discovery, router, now >>
  /\ UNCHANGED lifecycle

Call_get_server(server_id) ==
  /\ last' = [ NoCall EXCEPT !.op = "get_server",
                             !.server = ServiceDiscovery_get_server(service_discovery, server_id),
                             !.pre_active = ServiceDiscovery_is_live(service_discovery, server_id) ]
  /\ rr_run' = NoRun
  /\ UNCHANGED << tool_registry, service_discovery, router, now >>
  /\ UNCHANGED lifecycle

Call_get_all_servers(active_only) ==
  /\ last' = [ NoCall EXCEPT !.op = "get_all_servers", !.ok = active_only,
                             !.affected = ServiceDiscovery_get_all_servers(service_discovery,
                                                                           active_only) ]
  /\ rr_run' = NoRun
  /\ UNCHANGED << tool_registry, service_discovery, router, now >>
  /\ UNCHANGED lifecycle

\* ------------------------------------------------------- calls on Router
Call_Router_update_tool_mapping(tool_name, server_id) ==
  /\ ListsBounded(Router_update_tool_mapping(router, tool_name, server_id))
  /\ router' = Router_update_tool_mapping(router, tool_name, server_id)
  /\ last' = [ NoCall EXCEPT !.op = "Router.update_tool_mapping" ]
  /\ rr_run' = NoRun
  /\ UNCHANGED << tool_registry, service_discovery, now >>
  /\ UNCHANGED lifecycle

Call_Router_remove_tool_mapping(tool_name, server_id) ==
  /\ router' = Router_remove_tool_mapping(router, tool_name, server_id)
  /\ last' = [ NoCall EXCEPT !.op = "Router.remove_tool_mapping" ]
  /\ rr_run' = NoRun
  /\ UNCHANGED << tool_registry, service_discovery, now >>
  /\ UNCHANGED lifecycle

Call_Router_remove_server_mappings(server_id) ==
  LET rm == Router_remove_server_mappings(router, server_id)
  IN /\ router' = rm.router
     /\ last' = [ NoCall EXCEPT !.op = "Router.remove_server_mappings", !.server = server_id,
                                !.affected = rm.result ]
     /\ rr_run' = NoRun
     /\ UNCHANGED << tool_registry, service_discovery, now >>
     /\ UNCHANGED lifecycle

Call_Router_get_server_for_tool(tool_name, strategy) ==
  \E o \in Router_get_server_for_tool(router, service_discovery, tool_name, strategy) :
    /\ LoadBounded(o.router, MaxLoad)
    /\ router' = o.router
    /\ last' = [ NoCall EXCEPT !.op = "Router.get_server_for_tool", !.name = tool_name,
                               !.strategy = strategy, !.result = o.result ]
    /\ rr_run' = IF strategy = "round_robin" /\ o.result # None
                 THEN NextRun(tool_name, router.tool_to_servers[tool_name], o.result)
                 ELSE NoRun
    /\ UNCHANGED << tool_registry, service_discovery, now >>
    /\ UNCHANGED lifecycle

\* (GlobalMCPServer.record_tool_completion only delegates to this)
Call_record_tool_completion(server_id) ==
  /\ router' = Router_record_tool_completion(router, server_id)
  /\ last' = [ NoCall EXCEPT !.op = "record_tool_completion",
                             !.pre_load = Router_get_server_load(router, server_id) ]
  /\ rr_run' = NoRun
  /\ UNCHANGED << tool_registry, service_discovery, now >>
  /\ UNCHANGED lifecycle

\* ---------------------------------------------- calls on GlobalMCPServer
Call_register_tool(tool_id, meta) ==
  LET rt == GlobalMCPServer_register_tool(tool_registry, router, tool_id, meta)
  IN /\ tool_id \notin DOMAIN tool_registry.tools
     /\ ListsBounded(rt.router)
     /\ tool_registry' = rt.registry
     /\ router' = rt.router
     /\ last' = [ NoCall EXCEPT !.op = "register_tool" ]
     /\ rr_run' = NoRun
     /\ UNCHANGED << service_discovery, now >>
     /\ UNCHANGED lifecycle

Call_unregister_tool(tool_id) ==
  LET un == GlobalMCPServer_unregister_tool(tool_registry, router, tool_id)
  IN /\ tool_registry' = un.registry
     /\ router' = un.router
     /\ last' = [ NoCall EXCEPT !.op = "unregister_tool", !.ok = un.result ]
     /\ rr_run' = NoRun
     /\ UNCHANGED << service_discovery, now >>
     /\ UNCHANGED lifecycle

Call_unregister_server(server_id) ==
  LET un == GlobalMCPServer_unregister_server(service_discovery, router, server_id)
  IN /\ service_discovery' = un.discovery
     /\ router' = un.router
     /\ last' = [ NoCall EXCEPT !.op = "unregister_server", !.ok = un.result ]
     /\ rr_run' = NoRun
     /\ UNCHANGED << tool_registry, now >>
     /\ UNCHANGED lifecycle

Call_route_tool_request(tool_name, strategy) ==
  \E o \in GlobalMCPServer_route_tool_request(tool_registry, service_discovery, router,
                                              tool_name, strategy) :
    /\ LoadBounded(o.router, MaxRoutedLoad)
    /\ router' = o.router
    /\ last' = [ NoCall EXCEPT !.op = "route_tool_request", !.name = tool_name,
                               !.result = o.result, !.error = o.error ]
    /\ rr_run' = NoRun
    /\ UNCHANGED << tool_registry, service_discovery, now >>
    /\ UNCHANGED lifecycle

Call_health_check_iteration ==
  LET hc == HealthCheckIteration(service_discovery, router, now)
  IN /\ service_discovery' = hc.discovery
     /\ router' = hc.router
     /\ last' = [ NoCall EXCEPT !.op = "health_check_iteration" ]
     /\ rr_run' = NoRun
     /\ UNCHANGED << tool_registry, now >>
     /\ UNCHANGED lifecycle

\* ------------------------------------- lifecycle of GlobalMCPServer
\* asyncio.create_task(self._health_check_loop()): a task that is scheduled
\* and has not run yet.  pc is where the coroutine stands ("created",
\* "sleep" at an asyncio.sleep, or how it ended: "cancelled", "returned",
\* "raised"), seconds the argument of the sleep it stands at, cancel whether
\* Task.cancel() was called and the CancelledError is still to be delivered.
NewTask == [ pc |-> "created", seconds |-> 0, cancel |-> FALSE ]

\* Task.done()
TaskDone(task) == task.pc \in { "cancelled", "returned", "raised" }

\* except clauses that catch nothing, so that an Exception ends the task
HealthCheckLoop_except_Propagates(task, error) ==
  IF error = "CancelledError"
  THEN [ task EXCEPT !.pc = "cancelled", !.seconds = 0 ]
  ELSE [ task EXCEPT !.pc = "raised", !.seconds = 0 ]

\* The except clauses of _health_check_loop, for an error raised inside the
\* try block: CancelledError is raised again and ends the task as
\* cancelled; any other Exception is logged and the task sleeps 10 seconds
\* inside the while loop.
HealthCheckLoop_except(task, error) ==
  IF error = "CancelledError"
  THEN [ task EXCEPT !.pc = "cancelled", !.seconds = 0 ]
  ELSE [ task EXCEPT !.pc = "sleep", !.seconds = ErrorBackoff ]

\* GlobalMCPServer.start
Call_start ==
  /\ IF running
     THEN UNCHANGED << running, health_check_task, tasks >>
     ELSE /\ Len(tasks) < MaxTasks
          /\ running' = TRUE
          /\ tasks' = Append(tasks, NewTask)
          /\ health_check_task' = Len(tasks) + 1
  /\ last' = [ NoCall EXCEPT !.op = "start" ]
  /\ rr_run' = NoRun
  /\ UNCHANGED << tool_registry, service_discovery, router, now, stops, failures >>

\* GlobalMCPServer.stop up to "await self._health_check_task" (or to its
\* return when it does not suspend there: not running, no task handle, or
\* a task that is done already, which await does not wait for)
Call_stop ==
  /\ IF ~running
     THEN /\ UNCHANGED << running, health_check_task, tasks, stops >>
          /\ last' = [ NoCall EXCEPT !.op = "stop" ]
     ELSE /\ running' = FALSE
          /\ IF health_check_task = None
             THEN /\ UNCHANGED << health_check_task, tasks, stops >>
                  /\ last' = [ NoCall EXCEPT !.op = "stop", !.ok = TRUE ]
             ELSE IF TaskDone(tasks[health_check_task])
             THEN /\ UNCHANGED << tasks, stops >>
                  /\ health_check_task' =
                       IF tasks[health_check_task].pc = "raised"
                       THEN health_check_task ELSE None
                  /\ last' = [ NoCall EXCEPT !.op = "stop", !.ok = TRUE,
                                 !.error = IF tasks[health_check_task].pc = "raised"
                                           THEN "Exception" ELSE "" ]
             ELSE /\ tasks' = [ tasks EXCEPT ![health_check_task].cancel = TRUE ]
                  /\ stops' = stops \cup { health_check_task }
                  /\ UNCHANGED health_check_task
                  /\ last' = [ NoCall EXCEPT !.op = "stop_await" ]
  /\ rr_run' = NoRun
  /\ UNCHANGED << tool_registry, service_discovery, router, now, failures >>

\* GlobalMCPServer.stop from its await to its return: the awaited task is
\* done; its CancelledError is swallowed, the handle is cleared.  An
\* exception of the task other than CancelledError would leave stop() at
\* the await, before the handle is cleared.
Stop_return(t) ==
  /\ t \in stops
  /\ TaskDone(tasks[t])
  /\ stops' = stops \ { t }
  /\ health_check_task' = IF tasks[t].pc = "raised" THEN health_check_task ELSE None
  /\ last' = [ NoCall EXCEPT !.op = "stop", !.ok = TRUE, !.server = t,
                             !.error = IF tasks[t].pc = "raised" THEN "Exception" ELSE "" ]
  /\ rr_run' = NoRun
  /\ UNCHANGED << tool_registry, service_discovery, router, now, running, tasks, failures >>

\* One run of a _health_check_loop task, from the point where it is
\* resumed (its first run, or the end of a sleep) to its next sleep or to
\* its end; there is no await in between.
\*  - A pending CancelledError is delivered where the task stands: never
\*    started, or at the sleep in the try block (raised again by the
\*    except clause), or at the sleep in the except clause (propagates).
\*  - Otherwise "while self._running" is tested; the task returns when
\*    the flag is False.
\*  - Otherwise one iteration runs: either to the end (check_health and the
\*    purge, then sleep(60)), or check_health raises, or the purge raises
\*    after the servers of done (any subset of the inactive ones) have
\*    been purged; the raised Exception goes to the except clauses.
HealthCheckLoop_step(t) ==
  /\ t \in DOMAIN tasks
  /\ ~TaskDone(tasks[t])
  /\ rr_run' = NoRun
  /\ UNCHANGED << tool_registry, now, running, health_check_task, stops >>
  /\ IF tasks[t].cancel
     THEN /\ tasks' = [ tasks EXCEPT ![t] =
                          IF tasks[t].pc = "sleep" /\ tasks[t].seconds = HealthCheckInterval
                          THEN HealthCheckLoop_except(tasks[t], "CancelledError")
                          ELSE [ tasks[t] EXCEPT !.pc = "cancelled", !.seconds = 0 ] ]
          /\ last' = [ NoCall EXCEPT !.op = "health_check_exit", !.server = t ]
          /\ UNCHANGED << service_discovery, router, failures >>
     ELSE IF ~running
     THEN /\ tasks' = [ tasks EXCEPT ![t].pc = "returned", ![t].seconds = 0 ]
          /\ last' = [ NoCall EXCEPT !.op = "health_check_exit", !.server = t ]
          /\ UNCHANGED << service_discovery, router, failures >>
     ELSE \/ LET hc == HealthCheckIteration(service_discovery, router, now)
             IN /\ service_discovery' = hc.discovery
                /\ router' = hc.router
                /\ tasks' = [ tasks EXCEPT ![t].pc = "sleep", ![t].seconds = HealthCheckInterval ]
                /\ last' = [ NoCall EXCEPT !.op = "health_check_iteration", !.server = t ]
                /\ UNCHANGED failures
          \/ /\ failures < MaxFailures
             /\ failures' = failures + 1
             /\ tasks' = [ tasks EXCEPT ![t] = HealthCheckLoop_except(tasks[t], "Exception") ]
             /\ last' = [ NoCall EXCEPT !.op = "health_check_failure", !.server = t ]
             /\ \/ UNCHANGED << service_discovery, router >>
                \/ LET sd1 == ServiceDiscovery_check_health(service_discovery, now)
                       inactive == { s \in DOMAIN sd1.servers : ~sd1.servers[s].is_active }
                   IN /\ service_discovery' = sd1
                      /\ \E done \in SUBSET inactive : router' = RemoveInactive(router, done)

\* ========================================================= specifications
\* The composed control plane, driven through GlobalMCPServer's methods.
\* Tags play no part in routing: here tools and servers are registered
\* without tags (SpecRegistry and SpecDiscovery draw all tag sets).
Next ==
  \/ \E t \in ToolIds, m \in { x \in ToolMetadata : x.tags = {} } : Call_register_tool(t, m)
  \/ \E t \in ToolIds : Call_unregister_tool(t)
  \/ \E s \in ServerIds : Call_register_server(s, {})
  \/ \E s \in ServerIds : Call_unregister_server(s)
  \/ \E s \in ServerIds : Call_record_heartbeat(s)
  \/ \E n \in Names, st \in Strategies : Call_route_tool_request(n, st)
  \/ \E s \in ServerIds : Call_record_tool_completion(s)
  \/ Call_health_check_iteration
  \/ Tick

Spec == Init /\ [][Next]_vars

\* The Router and its ServiceDiscovery, driven through their own methods.
NextRouter ==
  \/ \E n \in Names, s \in ServerIds : Call_Router_update_tool_mapping(n, s)
  \/ \E n \in Names, s \in ServerIds : Call_Router_remove_tool_mapping(n, s)
  \/ \E s \in ServerIds : Call_Router_remove_server_mappings(s)
  \/ \E n \in Names, st \in Strategies : Call_Router_get_server_for_tool(n, st)
  \/ \E s \in ServerIds : Call_record_tool_completion(s)
  \/ \E s \in ServerIds : Call_register_server(s, {})
  \/ \E s \in ServerIds : Call_ServiceDiscovery_unregister_server(s)
  \/ \E s \in ServerIds : Call_record_heartbeat(s)
  \/ Call_ServiceDiscovery_check_health
  \/ Tick

SpecRouter == Init /\ [][NextRouter]_vars

\* The ToolRegistry, driven through its own methods.
NextRegistry ==
  \/ \E t \in ToolIds, m \in ToolMetadata : Call_ToolRegistry_register_tool(t, m)
  \/ \E t \in ToolIds : Call_ToolRegistry_unregister_tool(t)
  \/ \E tags \in SUBSET Tags, s \in ServerIds \cup {None}, n \in NamePatterns :
       Call_ToolRegistry_find_tools(tags, s, n)
  \/ \E n \in NamePatterns, tags \in SUBSET Tags, s \in ServerIds \cup {None} :
       Call_find_tools(n, tags, s)

SpecRegistry == Init /\ [][NextRegistry]_vars

\* The ServiceDiscovery, driven through its own methods.
NextDiscovery ==
  \/ \E s \in ServerIds, tags \in SUBSET Tags : Call_register_server(s, tags)
  \/ \E s \in ServerIds : Call_ServiceDiscovery_unregister_server(s)
  \/ \E s \in ServerIds : Call_record_heartbeat(s)
  \/ Call_ServiceDiscovery_check_health
  \/ Tick

SpecDiscovery == Init /\ [][NextDiscovery]_vars

\* The read operations of ServiceDiscovery and the selection of the Router
\* (one tool name), over servers that register with tags, send heartbeats
\* and are checked.
NextReads ==
  \/ \E s \in ServerIds, tags \in SUBSET Tags : Call_register_server(s, tags)
  \/ \E s \in ServerIds : Call_record_heartbeat(s)
  \/ Call_ServiceDiscovery_check_health
  \/ \E s \in ServerIds : Call_Router_update_tool_mapping(<< "s" >>, s)
  \/ \E st \in Strategies : Call_Router_get_server_for_tool(<< "s" >>, st)
  \/ \E tags \in SUBSET Tags, p \in { << >>, << "u" >> }, a \in BOOLEAN :
       Call_find_servers(tags, p, a)
  \/ \E s \in ServerIds : Call_get_server(s)
  \/ \E a \in BOOLEAN : Call_get_all_servers(a)
  \/ Tick

SpecReads == Init /\ [][NextReads]_vars

\* register_tool and unregister_tool of GlobalMCPServer for tools of
\* registered servers; no health check runs and no server is unregistered,
\* so every server stays registered and live.
NextToolCalls ==
  \/ \E s \in ServerIds : Call_register_server(s, {})
  \/ \E t \in ToolIds, m \in { x \in ToolMetadata :
                                  x.server_id \in DOMAIN service_discovery.servers } :
       Call_register_tool(t, m)
  \/ \E t \in ToolIds : Call_unregister_tool(t)

SpecToolCalls == Init /\ [][NextToolCalls]_vars

\* The ToolRegistry and the ServiceDiscovery side by side, each driven
\* through its own methods (tools under one name: names are in no index).
NextComponents ==
  \/ \E t \in ToolIds, m \in { x \in ToolMetadata : x.name = << "s" >> } :
       Call_ToolRegistry_register_tool(t, m)
  \/ \E t \in ToolIds : Call_ToolRegistry_unregister_tool(t)
  \/ \E s \in ServerIds, tags \in SUBSET Tags : Call_register_server(s, tags)
  \/ \E s \in ServerIds : Call_ServiceDiscovery_unregister_server(s)
  \/ \E s \in ServerIds : Call_record_heartbeat(s)
  \/ Call_ServiceDiscovery_check_health
  \/ Tick

SpecComponents == Init /\ [][NextComponents]_vars

\* GlobalMCPServer with its background task: start, stop and the runs of
\* the health check loop, interleaved (at the awaits) with the calls that
\* feed the loop: one server comes, beats and goes; tools are registered
\* under one name on it and on ids that name no server; requests are
\* routed round robin; time passes.
NextLifecycle ==
  \/ Call_start
  \/ Call_stop
  \/ \E t \in 1..MaxTasks : Stop_return(t)
  \/ \E t \in 1..MaxTasks : HealthCheckLoop_step(t)
  \/ Call_register_server(MaxServers, {})
  \/ Call_unregister_server(MaxServers)
  \/ Call_record_heartbeat(MaxServers)
  \/ \E s \in ServerIds :
       Call_register_tool(s, [ name |-> << "s" >>, tags |-> {}, server_id |-> s ])
  \/ Call_route_tool_request(<< "s" >>, "round_robin")
  \/ Tick

\* The event loop resumes every task that can run: a health check task
\* whose sleep is over (or that was cancelled), and a stop() whose awaited
\* task is done.
SpecLifecycle ==
  /\ Init
  /\ [][NextLifecycle]_vars
  /\ \A t \in 1..MaxTasks : WF_vars(HealthCheckLoop_step(t))
  /\ \A t \in 1..MaxTasks : WF_vars(Stop_return(t))

\* ================================================================= claims
\* the server ids in a candidate list
Elements(lst) == { lst[i] : i \in 1..Len(lst) }
\* no id occurs twice in the list
Distinct(lst) == \A i, j \in 1..Len(lst) : lst[i] = lst[j] => i = j
\* the number of occurrences of x in the list
Count(lst, x) == Cardinality({ i \in 1..Len(lst) : lst[i] = x })
\* the two lists hold the same ids the same number of times
IsPermutation(a, b) ==
  /\ Len(a) = Len(b)
  /\ \A x \in Elements(a) \cup Elements(b) : Count(a, x) = Count(b, x)

\* C1: every successful route_tool_request, under every strategy, returns
\* the id of a server that has a record in ServiceDiscovery whose is_active
\* flag is set at the moment of the call (the call does not change
\* ServiceDiscovery, so the state after the call shows it).
C1_RouteReturnsLiveServer ==
  (last.op = "route_tool_request" /\ last.result # None)
    => ServiceDiscovery_is_live(service_discovery, last.result)

\* a route succeeded on a tool that also has a candidate that is not live
C1_Witness ==
  /\ last.op = "route_tool_request"
  /\ last.result # None
  /\ last.name \in DOMAIN router.tool_to_servers
  /\ \E s \in Elements(router.tool_to_servers[last.name]) :
       ~ServiceDiscovery_is_live(service_discovery, s)

\* C2: for N distinct servers mapped to one tool, all with a record whose
\* flag is set, consecutive round_robin selections with no other call in
\* between return the servers in the order of the list, each once in N
\* selections, and the (N+1)-th returns the first again: the k-th pick of
\* a run is the ((k-1) mod N + 1)-th entry of the list the run started with.
C2_RoundRobinVisitsAllInOrder ==
  LET N == Len(rr_run.start)
  IN (/\ rr_run.picks # << >>
      /\ Distinct(rr_run.start)
      /\ \A s \in Elements(rr_run.start) : ServiceDiscovery_is_live(service_discovery, s))
     => \A k \in 1..Len(rr_run.picks) : rr_run.picks[k] = rr_run.start[((k - 1) % N) + 1]

\* a run of N+1 selections over N >= 2 distinct live servers
C2_Witness ==
  /\ Len(rr_run.start) >= 2
  /\ Len(rr_run.picks) = Len(rr_run.start) + 1
  /\ Distinct(rr_run.start)
  /\ \A s \in Elements(rr_run.start) : ServiceDiscovery_is_live(service_discovery, s)

\* C3: a round_robin selection changes the tool's candidate list only by
\* moving the selected id to the tail: the list after the call is a
\* permutation of the list before it (skipped candidates keep their place).
C3_RoundRobinOnlyMovesSelectedToTail ==
  [][ \A n \in Names :
        (Call_Router_get_server_for_tool(n, "round_robin") /\ last'.result # None)
          => /\ IsPermutation(router.tool_to_servers[n], router'.tool_to_servers[n])
             /\ router'.tool_to_servers[n] =
                  ListRemove(router.tool_to_servers[n], last'.result) \o << last'.result >>
    ]_vars

\* C4: no candidate list of the router holds the same server id twice.
C4_NoDuplicateCandidates ==
  \A n \in DOMAIN router.tool_to_servers : Distinct(router.tool_to_servers[n])

\* the first position of x in the list (x occurs in it)
FirstIndex(lst, x) == CHOOSE i \in 1..Len(lst) : lst[i] = x /\ \A j \in 1..(i - 1) : lst[j] # x

\* C5: a least_loaded selection returns a live candidate of the tool whose
\* load counter before the selection's increment (0 if untracked) is <=
\* that of every live candidate, and among the candidates with that minimum
\* load it is the one that comes first in the candidate list.
C5_LeastLoadedPicksFirstMinimum ==
  [][ \A n \in Names :
        (Call_Router_get_server_for_tool(n, "least_loaded") /\ last'.result # None)
          => LET lst == router.tool_to_servers[n]
                 live == { s \in Elements(lst) : ServiceDiscovery_is_live(service_discovery, s) }
                 load(s) == Router_get_server_load(router, s)
             IN /\ last'.result \in live
                /\ \A s \in live : load(last'.result) <= load(s)
                /\ \A s \in live : load(s) = load(last'.result)
                                     => FirstIndex(lst, last'.result) <= FirstIndex(lst, s)
    ]_vars

\* a least_loaded selection that passed over the first live candidate
\* because a later one carried less load
C5_Witness ==
  /\ last.op = "Router.get_server_for_tool"
  /\ last.strategy = "least_loaded"
  /\ last.result # None
  /\ AvailableServers(router, service_discovery, last.name)[1] # last.result

\* C6: every load counter is a non-negative integer in every state, and
\* record_tool_completion decrements the server's counter by exactly one
\* when it is positive and changes nothing (creates no counter) when the
\* counter is zero or the server is untracked.
C6_LoadNonNegativeAndCompletion ==
  /\ [](\A s \in DOMAIN router.server_load : router.server_load[s] \in Nat)
  /\ [][ \A s \in ServerIds :
           Call_record_tool_completion(s)
             => IF s \in DOMAIN router.server_load /\ router.server_load[s] > 0
                THEN /\ router'.server_load = [ router.server_load EXCEPT ![s] = @ - 1 ]
                     /\ router'.tool_to_servers = router.tool_to_servers
                ELSE router' = router
       ]_vars

\* a completion that found a positive counter and left it one lower
C6_Witness ==
  /\ last.op = "record_tool_completion"
  /\ last.pre_load > 0
  /\ \E s \in DOMAIN router.server_load : router.server_load[s] = last.pre_load - 1

\* C7: check_health flags inactive every server whose last heartbeat is
\* more than heartbeat_timeout old; record_heartbeat for a registered
\* server (flagged inactive or not) returns True, sets the flag at once
\* and sets last_heartbeat to the current time.
C7_TimeoutFlipsInactiveHeartbeatRevives ==
  [][ /\ Call_ServiceDiscovery_check_health
        => \A s \in DOMAIN service_discovery.servers :
             (now - service_discovery.servers[s].last_heartbeat
                > service_discovery.heartbeat_timeout)
               => /\ s \in DOMAIN service_discovery'.servers
                  /\ ~service_discovery'.servers[s].is_active
      /\ \A s \in DOMAIN service_discovery.servers :
           Call_record_heartbeat(s)
             => /\ last'.ok
                /\ s \in DOMAIN service_discovery'.servers
                /\ service_discovery'.servers[s].is_active
                /\ service_discovery'.servers[s].last_heartbeat = now
    ]_vars

\* a heartbeat that found the server flagged inactive (by a check_health
\* after the timeout) and flagged it active again
C7_Witness ==
  /\ last.op = "record_heartbeat"
  /\ last.ok
  /\ ~last.pre_active
  /\ \E s \in DOMAIN service_discovery.servers :
       /\ service_discovery.servers[s].is_active
       /\ service_discovery.servers[s].last_heartbeat = now
       /\ now > service_discovery.heartbeat_timeout

\* C8: remove_server_mappings(server) returns exactly the tools whose list
\* held the server; afterwards no list holds the server, a tool whose only
\* candidate it was has no entry, every other tool's list is unchanged and
\* the server has no load counter.
C8_RemoveServerMappingsPurges ==
  [][ \A s \in ServerIds :
        Call_Router_remove_server_mappings(s)
          => LET before == router.tool_to_servers
                 after == router'.tool_to_servers
                 held == { n \in DOMAIN before : InList(before[n], s) }
             IN /\ last'.affected = held
                /\ \A n \in DOMAIN after : ~InList(after[n], s)
                /\ \A n \in held : Elements(before[n]) = {s} => n \notin DOMAIN after
                /\ \A n \in (DOMAIN before) \ held : n \in DOMAIN after /\ after[n] = before[n]
                /\ s \notin DOMAIN router'.server_load
    ]_vars

\* C9: route_tool_request raises ToolNotFoundError iff no registered tool
\* has the requested name, and raises ServerNotFoundError only when a
\* registered tool has that name.
C9_ToolNotFoundIffNoToolNamed ==
  last.op = "route_tool_request"
    => LET known == \E t \in DOMAIN tool_registry.tools : tool_registry.tools[t].name = last.name
       IN /\ (last.error = "ToolNotFoundError") <=> ~known
          /\ (last.error = "ServerNotFoundError") => known

\* C10: the tag index and the server index of the ToolRegistry hold exactly
\* the registered tools: id t is under tag g iff t is registered with g in
\* its tags, t is under server s iff t is registered with server_id s, and
\* no index entry is an empty set.
C10_RegistryIndicesMatchRecords ==
  LET reg == tool_registry
  IN /\ \A g \in Tags, t \in ToolIds :
          (g \in DOMAIN reg.tags_index /\ t \in reg.tags_index[g])
            <=> (t \in DOMAIN reg.tools /\ g \in reg.tools[t].tags)
     /\ \A s \in ServerIds, t \in ToolIds :
          (s \in DOMAIN reg.server_tools /\ t \in reg.server_tools[s])
            <=> (t \in DOMAIN reg.tools /\ reg.tools[t].server_id = s)
     /\ DOMAIN reg.tags_index \subseteq Tags
     /\ DOMAIN reg.server_tools \subseteq ServerIds
     /\ \A g \in DOMAIN reg.tags_index : reg.tags_index[g] # {}
     /\ \A s \in DOMAIN reg.server_tools : reg.server_tools[s] # {}

\* a tool was unregistered while a tool with a server id and a tag stays
\* registered (the index entries were reconciled, not just dropped)
C10_Witness ==
  /\ last.op = "ToolRegistry.unregister_tool"
  /\ last.ok
  /\ \E t \in DOMAIN tool_registry.tools :
       tool_registry.tools[t].server_id # None /\ tool_registry.tools[t].tags # {}

\* C11: in every state of ServiceDiscovery a server id is in the tag index
\* under tag t exactly when the server has a record and t is in the record's
\* tags; no tag of the index maps to an empty set; and a successful
\* unregister_server(id) leaves the id under no tag.
C11_TagIndexMatchesRecords ==
  /\ [](LET sd == service_discovery
        IN /\ \A t \in Tags, s \in ServerIds :
                (t \in DOMAIN sd.tags_index /\ s \in sd.tags_index[t])
                  <=> (s \in DOMAIN sd.servers /\ t \in sd.servers[s].tags)
           /\ DOMAIN sd.tags_index \subseteq Tags
           /\ \A t \in DOMAIN sd.tags_index : sd.tags_index[t] # {})
  /\ [][\A s \in ServerIds :
          (Call_ServiceDiscovery_unregister_server(s) /\ last'.ok)
            => \A t \in DOMAIN service_discovery'.tags_index :
                 s \notin service_discovery'.tags_index[t]]_vars

\* a server was unregistered while one other server, tagged x, stays
\* registered: the index holds x alone
C11_Witness ==
  /\ last.op = "ServiceDiscovery.unregister_server" /\ last.ok
  /\ DOMAIN service_discovery.tags_index = {"x"}
  /\ \E s \in DOMAIN service_discovery.servers : service_discovery.servers[s].tags = {"x"}
  /\ Cardinality(DOMAIN service_discovery.servers) = 1

\* C12: in every state reached through GlobalMCPServer's operations, every
\* server id in a candidate list of the Router's tool_to_servers map has a
\* record in ServiceDiscovery.
C12_CandidatesAreRegistered ==
  \A n \in DOMAIN router.tool_to_servers :
    Elements(router.tool_to_servers[n]) \subseteq DOMAIN service_discovery.servers

\* C13: in every state reached through GlobalMCPServer's operations, for
\* every tool name n and every server id s in n's candidate list, some tool
\* record of ToolRegistry has name n and server_id s.
C13_CandidatesHaveToolRecords ==
  \A n \in DOMAIN router.tool_to_servers :
    \A s \in Elements(router.tool_to_servers[n]) :
      \E t \in DOMAIN tool_registry.tools :
        tool_registry.tools[t].name = n /\ tool_registry.tools[t].server_id = s

\* C14: at the end of every iteration of the health check loop, no server
\* whose record has is_active = False is in a candidate list of the Router,
\* and no such server has a load counter.
C14_PassPurgesInactiveServers ==
  last.op = "health_check_iteration" =>
    \A s \in DOMAIN service_discovery.servers :
      ~service_discovery.servers[s].is_active =>
        /\ \A n \in DOMAIN router.tool_to_servers : ~InList(router.tool_to_servers[n], s)
        /\ s \notin DOMAIN router.server_load

\* the list without the ids of the given set, in list order
Without(lst, ids) == SelectSeq(lst, LAMBDA s : s \notin ids)

\* C15: an iteration of the health check loop leaves ToolRegistry (records,
\* tag index, server index) exactly as it was; it keeps every record of
\* ServiceDiscovery, changing at most is_active; and in the Router it
\* removes nothing but candidate list entries and load counters of servers
\* whose record is inactive.
C15_PassLeavesRegistryAndRecords ==
  [][Call_health_check_iteration =>
       LET sd == service_discovery
           sd1 == service_discovery'
           dead == { s \in DOMAIN sd1.servers : ~sd1.servers[s].is_active }
       IN /\ tool_registry' = tool_registry
          /\ DOMAIN sd1.servers = DOMAIN sd.servers
          /\ sd1.tags_index = sd.tags_index
          /\ \A s \in DOMAIN sd.servers :
                /\ sd1.servers[s].last_heartbeat = sd.servers[s].last_heartbeat
                /\ sd1.servers[s].tags = sd.servers[s].tags
          /\ DOMAIN router'.tool_to_servers \subseteq DOMAIN router.tool_to_servers
          /\ \A n \in DOMAIN router.tool_to_servers :
                Without(Router_get_tool_servers(router', n), dead)
                  = Without(router.tool_to_servers[n], dead)
          /\ DOMAIN router'.server_load \subseteq DOMAIN router.server_load
          /\ \A s \in (DOMAIN router.server_load) \ dead :
                s \in DOMAIN router'.server_load
                  /\ router'.server_load[s] = router.server_load[s]]_vars

\* after an iteration a registered server is inactive, a tool record owned
\* by it is still in ToolRegistry, and the Router no longer maps the tool's
\* name nor counts the server's load
C15_Witness ==
  /\ last.op = "health_check_iteration"
  /\ \E s \in DOMAIN service_discovery.servers, t \in DOMAIN tool_registry.tools :
       /\ ~service_discovery.servers[s].is_active
       /\ tool_registry.tools[t].server_id = s
       /\ s \in DOMAIN tool_registry.server_tools
       /\ tool_registry.tools[t].name \notin DOMAIN router.tool_to_servers
       /\ s \notin DOMAIN router.server_load

\* C19: immediately after check_health, for every record, is_active equals
\* (now - last_heartbeat <= heartbeat_timeout), in every state reached
\* through register_server, record_heartbeat, unregister_server and
\* check_health as time advances: a record whose age equals the timeout is
\* still active, and a record within the timeout is not left inactive.
C19_CheckHealthFlagEqualsWithinTimeout ==
  [][Call_ServiceDiscovery_check_health =>
       \A s \in DOMAIN service_discovery'.servers :
         service_discovery'.servers[s].is_active
           <=> (now' - service_discovery'.servers[s].last_heartbeat
                  <= service_discovery'.heartbeat_timeout)]_vars

\* check_health has just run over one record whose age equals the timeout,
\* which is active, and one older record, which is inactive
C19_Witness ==
  /\ last.op = "ServiceDiscovery.check_health"
  /\ \E s1, s2 \in DOMAIN service_discovery.servers :
       /\ now - service_discovery.servers[s1].last_heartbeat
            = service_discovery.heartbeat_timeout
       /\ service_discovery.servers[s1].is_active
       /\ now - service_discovery.servers[s2].last_heartbeat
            > service_discovery.heartbeat_timeout
       /\ ~service_discovery.servers[s2].is_active

\* C20: the is_active flag of a server's record goes from True to False
\* only in a step that runs check_health (check_health itself, or the
\* iteration of the health check loop that calls it): no registration,
\* unregistration, heartbeat, route, completion or tool operation clears
\* the flag of a live server.
C20_OnlyCheckHealthClearsFlag ==
  [][(\E s \in (DOMAIN service_discovery.servers) \cap (DOMAIN service_discovery'.servers) :
        service_discovery.servers[s].is_active /\ ~service_discovery'.servers[s].is_active)
       => (Call_health_check_iteration \/ Call_ServiceDiscovery_check_health)]_vars

\* an iteration of the health check loop has cleared the flag of one
\* server while another server, registered later, is still live
C20_Witness ==
  /\ last.op = "health_check_iteration"
  /\ \E s1, s2 \in DOMAIN service_discovery.servers :
       /\ ~service_discovery.servers[s1].is_active
       /\ service_discovery.servers[s2].is_active
       /\ service_discovery.servers[s1].last_heartbeat
            < service_discovery.servers[s2].last_heartbeat

\* the server is flagged inactive and is in no candidate list
Purged(s) ==
  /\ s \in DOMAIN service_discovery.servers
  /\ ~service_discovery.servers[s].is_active
  /\ \A n \in DOMAIN router.tool_to_servers : ~InList(router.tool_to_servers[n], s)

\* the server is registered, its last heartbeat was at time h, and the
\* time passed since then exceeds the timeout
Stale(s, h) ==
  /\ s \in DOMAIN service_discovery.servers
  /\ service_discovery.servers[s].last_heartbeat = h
  /\ now - h > service_discovery.heartbeat_timeout

\* C16: while GlobalMCPServer is running, a registered server whose last
\* heartbeat is older than the timeout is eventually flagged inactive and
\* in no candidate list (after which no route returns it, C1), unless it
\* sends a further heartbeat, is unregistered, or the server is stopped.
C16_SilentServerEventuallyPurged ==
  \A s \in ServerIds, h \in Times :
    (running /\ Stale(s, h))
      ~> (Purged(s) \/ ~running \/ ~Stale(s, h))

\* the running loop has just ended an iteration with a server flagged
\* inactive and purged: a tool of the server is still registered, and the
\* server is in no candidate list and has no load counter
C16_Witness ==
  /\ running
  /\ last.op = "health_check_iteration"
  /\ \E s \in ServerIds :
       /\ Purged(s)
       /\ \E t \in DOMAIN tool_registry.tools : tool_registry.tools[t].server_id = s
       /\ s \notin DOMAIN router.server_load

\* the task stands at the sleep of the except clause
InBackoff(t) ==
  t \in DOMAIN tasks /\ tasks[t].pc = "sleep" /\ tasks[t].seconds = ErrorBackoff

\* C17: an Exception raised inside an iteration of the health check loop
\* never ends the task: no task ends by raising, the failed iteration
\* leaves the task at its 10 second sleep, and from there the task runs a
\* further iteration unless it is ended; a task ends only when stop() has
\* cancelled it or has cleared the running flag.
C17_FailureNeverEndsLoop ==
  /\ [](\A t \in DOMAIN tasks : tasks[t].pc # "raised")
  /\ [][\A t \in DOMAIN tasks :
          /\ (HealthCheckLoop_step(t) /\ last'.op = "health_check_failure")
               => InBackoff(t)'
          /\ (~TaskDone(tasks[t]) /\ TaskDone(tasks'[t]))
               => (tasks[t].cancel \/ ~running)]_vars
  /\ \A t \in 1..MaxTasks, k \in 0..MaxFailures :
       (InBackoff(t) /\ failures = k)
         ~> /\ t \in DOMAIN tasks
            /\ \/ TaskDone(tasks[t])
               \/ tasks[t].seconds = HealthCheckInterval
               \/ (failures > k /\ last.op = "health_check_failure" /\ last.server = t)

\* the only task there has been met a failure and has since run a further
\* iteration to its end: it is at its 60 second sleep, the server running
C17_Witness ==
  /\ running
  /\ Len(tasks) = 1
  /\ failures > 0
  /\ last.op = "health_check_iteration" /\ last.server = 1
  /\ tasks[1].pc = "sleep" /\ tasks[1].seconds = HealthCheckInterval

\* C18: start() on a stopped server sets the running flag and creates the
\* health check task; start() on a running server changes nothing; stop()
\* on a stopped server changes nothing; stop() on a running server cancels
\* the task and returns without raising, and when it returns the running
\* flag is False, the task handle is None and no health check loop is left
\* running.
C18_StartStopLifecycle ==
  [][/\ (Call_start /\ ~running)
          => /\ running'
             /\ health_check_task' \in (DOMAIN tasks') \ (DOMAIN tasks)
             /\ tasks'[health_check_task'] = NewTask
     /\ (Call_start /\ running) => UNCHANGED lifecycle
     /\ (Call_stop /\ ~running) => UNCHANGED lifecycle
     /\ (Call_stop /\ running /\ health_check_task # None)
          => tasks'[health_check_task].cancel
     /\ ((Call_stop \/ \E t \in 1..MaxTasks : Stop_return(t))
           /\ last'.op = "stop" /\ last'.ok)
          => /\ last'.error = ""
             /\ ~running'
             /\ health_check_task' = None
             /\ \A t \in DOMAIN tasks' : TaskDone(tasks'[t])]_vars

\* C21: every call of Router.get_server_for_tool that returns a server,
\* under round_robin, random, least_loaded and any other strategy string,
\* raises the load counter of the returned server by exactly one and
\* leaves every other server's counter as it was.
C21_SelectionIncrementsOnlyReturnedServer ==
  [][\A n \in Names, st \in Strategies :
       (Call_Router_get_server_for_tool(n, st) /\ last'.result # None)
         => /\ Router_get_server_load(router', last'.result)
                 = Router_get_server_load(router, last'.result) + 1
            /\ \A s \in ServerIds \ { last'.result } :
                 /\ (s \in DOMAIN router'.server_load) <=> (s \in DOMAIN router.server_load)
                 /\ Router_get_server_load(router', s) = Router_get_server_load(router, s)]_vars

\* a selection under an unrecognised strategy has just returned a server
\* whose counter now stands at 2, while the other server's counter is 1
C21_Witness ==
  /\ last.op = "Router.get_server_for_tool" /\ last.strategy = "other"
  /\ last.result # None
  /\ Router_get_server_load(router, last.result) = 2
  /\ \E s \in (DOMAIN router.server_load) \ { last.result } : router.server_load[s] = 1

\* the registered tools whose tags include all of tags, whose server_id is
\* server_id when one is given, and whose name holds name_pattern (case
\* ignored) when one is given
MatchingTools(reg, tags, server_id, name_pattern) ==
  { t \in DOMAIN reg.tools :
      /\ tags \subseteq reg.tools[t].tags
      /\ server_id # None => reg.tools[t].server_id = server_id
      /\ name_pattern # << >> => IsSubstring(Lower(name_pattern), Lower(reg.tools[t].name)) }

\* C22: find_tools with tags T returns exactly the registered tools whose
\* tag set includes T, restricted by the name substring and the server id
\* when they are given, and returns nothing (no error) when a tag of T is
\* on no registered tool; for GlobalMCPServer.find_tools and for
\* ToolRegistry.find_tools.
C22_FindToolsByTagsExact ==
  [][\A tags \in SUBSET Tags, s \in ServerIds \cup {None}, n \in NamePatterns :
       /\ Call_find_tools(n, tags, s)
            => last'.affected = MatchingTools(tool_registry, tags, s, n)
       /\ Call_ToolRegistry_find_tools(tags, s, n)
            => last'.affected = MatchingTools(tool_registry, tags, s, n)]_vars

\* C23: every tool returned by ToolRegistry.find_tools with a server_id
\* has that server_id, so that a server_id that owns no registered tool
\* yields an empty result.
C23_FindToolsHonoursServerId ==
  [][\A tags \in SUBSET Tags, s \in ServerIds, n \in NamePatterns :
       Call_ToolRegistry_find_tools(tags, s, n)
         => \A t \in last'.affected : tool_registry.tools[t].server_id = s]_vars

\* C24: ToolRegistry.unregister_tool, ServiceDiscovery.unregister_server
\* and ServiceDiscovery.record_heartbeat, called with an id that is not
\* registered, return False and leave the component's records and indices
\* as they were.
C24_UnknownIdIsRefusedWithoutEffect ==
  [][/\ \A t \in ToolIds :
          (Call_ToolRegistry_unregister_tool(t) /\ t \notin DOMAIN tool_registry.tools)
            => (~last'.ok /\ tool_registry' = tool_registry)
     /\ \A s \in ServerIds :
          /\ (Call_ServiceDiscovery_unregister_server(s)
                /\ s \notin DOMAIN service_discovery.servers)
               => (~last'.ok /\ service_discovery' = service_discovery)
          /\ (Call_record_heartbeat(s) /\ s \notin DOMAIN service_discovery.servers)
               => (~last'.ok /\ service_discovery' = service_discovery)]_vars

\* a heartbeat has just been refused while another server, with a tag,
\* and a tool, with a tag and a server, are registered
C24_Witness ==
  /\ last.op = "record_heartbeat" /\ ~last.ok
  /\ \E s \in DOMAIN service_discovery.servers : service_discovery.servers[s].tags # {}
  /\ \E t \in DOMAIN tool_registry.tools :
       tool_registry.tools[t].tags # {} /\ tool_registry.tools[t].server_id # None

\* C25: when GlobalMCPServer.unregister_server(server_id) returns True,
\* the server has no record in ServiceDiscovery, is under no tag of the
\* tag index, is in no candidate list of the Router and has no load
\* counter.
C25_UnregisterServerRemovesEveryTrace ==
  [][\A s \in ServerIds :
       (Call_unregister_server(s) /\ last'.ok)
         => /\ s \notin DOMAIN service_discovery'.servers
            /\ \A t \in DOMAIN service_discovery'.tags_index :
                 s \notin service_discovery'.tags_index[t]
            /\ \A n \in DOMAIN router'.tool_to_servers :
                 ~InList(router'.tool_to_servers[n], s)
            /\ s \notin DOMAIN router'.server_load]_vars

\* C26: a ServiceDiscovery that exists has a strictly positive
\* heartbeat_timeout (a non-positive one is refused at construction).
C26_TimeoutStrictlyPositive == service_discovery.heartbeat_timeout > 0

\* C27: Router.get_server_for_tool returns None exactly when the tool has
\* no entry in tool_to_servers or none of its candidates has a record in
\* ServiceDiscovery with is_active set; with at least one such candidate
\* it returns a server under every strategy.
C27_SelectReturnsNoneIffNoLiveCandidate ==
  [][\A n \in Names, st \in Strategies :
       Call_Router_get_server_for_tool(n, st)
         => ((last'.result = None)
               <=> \/ n \notin DOMAIN router.tool_to_servers
                   \/ \A s \in Elements(router.tool_to_servers[n]) :
                        ~ServiceDiscovery_is_live(service_discovery, s))]_vars

\* a least_loaded selection has just returned the second candidate of a
\* tool whose first candidate is not live
C27_Witness ==
  /\ last.op = "Router.get_server_for_tool" /\ last.strategy = "least_loaded"
  /\ last.name \in DOMAIN router.tool_to_servers
  /\ LET lst == router.tool_to_servers[last.name]
     IN /\ Len(lst) = 2
        /\ ~ServiceDiscovery_is_live(service_discovery, lst[1])
        /\ last.result = lst[2]
        /\ lst[1] # lst[2]

\* C28: the load counter of a server is the number of its dispatches in
\* flight: a route that returns the server adds one to it, a completion
\* for a server with a dispatch in flight takes one from it, and no other
\* operation of GlobalMCPServer (registration and unregistration of tools
\* and servers, heartbeat, health check iteration) changes the value that
\* get_server_load returns for any server.
C28_LoadCountsDispatchesInFlight ==
  [][\A s \in ServerIds :
       Router_get_server_load(router', s) =
         IF /\ \E n \in Names, st \in Strategies : Call_route_tool_request(n, st)
            /\ last'.result = s
         THEN Router_get_server_load(router, s) + 1
         ELSE IF Call_record_tool_completion(s) /\ Router_get_server_load(router, s) > 0
         THEN Router_get_server_load(router, s) - 1
         ELSE Router_get_server_load(router, s)]_vars

\* a server the last check_health flagged inactive that is still in a
\* candidate list of the Router
FlaggedAndMapped(sd, r) ==
  { s \in DOMAIN sd.servers :
      /\ ~sd.servers[s].is_active
      /\ \E n \in DOMAIN r.tool_to_servers : InList(r.tool_to_servers[n], s) }

\* C29: an iteration of the health check loop is atomic for the other
\* operations: a route, a registration (of a tool or a server), a heartbeat
\* or a completion that is the first call to run after an iteration never
\* starts in a state where a server that the iteration's check_health
\* flagged inactive is still in a candidate list of the Router.
C29_PassIsAtomicForOtherCalls ==
  [][(/\ last.op = "health_check_iteration"
      /\ \/ \E n \in Names, st \in Strategies : Call_route_tool_request(n, st)
         \/ \E t \in ToolIds, m \in ToolMetadata : Call_register_tool(t, m)
         \/ \E s \in ServerIds : Call_register_server(s, {})
         \/ \E s \in ServerIds : Call_record_heartbeat(s)
         \/ \E s \in ServerIds : Call_record_tool_completion(s))
       => FlaggedAndMapped(service_discovery, router) = {}]_vars

\* the health check loop tasks that are alive: not finished, and with no
\* cancellation waiting to be delivered
AliveTasks == { t \in DOMAIN tasks : ~TaskDone(tasks[t]) /\ ~tasks[t].cancel }

\* C30: however calls of start and stop interleave (a start that runs while
\* a stop is suspended at its await included), at most one health check
\* loop task is alive, and whenever _running is True _health_check_task is
\* the handle of the alive task.
C30_OneLiveLoopHeldByHandle ==
  /\ Cardinality(AliveTasks) <= 1
  /\ running => (health_check_task # None /\ AliveTasks = { health_check_task })

\* C31: the read operations work on the stored flag and change nothing in
\* ServiceDiscovery: find_servers returns the servers that have every
\* given tag and match the name pattern, restricted to those whose stored
\* is_active is True when active_only; get_all_servers the same without
\* tags and pattern; get_server the stored record; and a selection of the
\* Router returns only a server whose stored flag is True, and returns one
\* whenever a candidate has the flag set, stale heartbeat or not.
C31_ReadsUseStoredFlag ==
  [][/\ \A tags \in SUBSET Tags, p \in NamePatterns, a \in BOOLEAN :
          (last'.op = "find_servers" /\ Call_find_servers(tags, p, a))
            => /\ service_discovery' = service_discovery
               /\ last'.affected =
                    { s \in DOMAIN service_discovery.servers :
                        /\ a => service_discovery.servers[s].is_active
                        /\ tags \subseteq service_discovery.servers[s].tags
                        /\ p = << >> \/ IsSubstring(Lower(p), Lower(ServerName(s))) }
     /\ \A a \in BOOLEAN :
          (last'.op = "get_all_servers" /\ Call_get_all_servers(a))
            => /\ service_discovery' = service_discovery
               /\ last'.affected =
                    { s \in DOMAIN service_discovery.servers :
                        a => service_discovery.servers[s].is_active }
     /\ \A s \in ServerIds :
          (last'.op = "get_server" /\ Call_get_server(s))
            => /\ service_discovery' = service_discovery
               /\ (last'.server = s) <=> (s \in DOMAIN service_discovery.servers)
               /\ last'.server = s => (last'.pre_active = service_discovery.servers[s].is_active)
     /\ \A n \in Names, st \in Strategies :
          (last'.op = "Router.get_server_for_tool" /\ Call_Router_get_server_for_tool(n, st))
            => /\ service_discovery' = service_discovery
               /\ last'.result # None => service_discovery.servers[last'.result].is_active
               /\ (/\ n \in DOMAIN router.tool_to_servers
                   /\ \E s \in Elements(router.tool_to_servers[n]) :
                        ServiceDiscovery_is_live(service_discovery, s))
                    => last'.result # None]_vars

\* a selection has just returned a server whose heartbeat is older than the
\* timeout (no check_health has run since)
C31_Witness ==
  /\ last.op = "Router.get_server_for_tool"
  /\ last.result # None
  /\ Stale(last.result, service_discovery.servers[last.result].last_heartbeat)
  /\ service_discovery.servers[last.result].is_active

\* C32: a route_tool_request that raises ToolNotFoundError or
\* ServerNotFoundError (the latter when Router.get_server_for_tool returns
\* None) leaves the Router (candidate lists and load counters), the
\* ToolRegistry and the ServiceDiscovery exactly as they were.
C32_FailedRouteChangesNothing ==
  [][\A n \in Names, st \in Strategies :
       (/\ last'.op = "route_tool_request" /\ last'.name = n /\ last'.result = None
        /\ Call_route_tool_request(n, st))
         => /\ last'.error \in { "ToolNotFoundError", "ServerNotFoundError" }
            /\ router' = router
            /\ tool_registry' = tool_registry
            /\ service_discovery' = service_discovery]_vars

\* a route has just raised ServerNotFoundError for a tool that has
\* candidates, none of them live, while a load counter is above zero
C32_Witness ==
  /\ last.op = "route_tool_request"
  /\ last.error = "ServerNotFoundError"
  /\ last.name \in DOMAIN router.tool_to_servers
  /\ \E s \in DOMAIN router.server_load : router.server_load[s] > 0

\* C33: record_heartbeat(server_id) changes nothing but last_heartbeat and
\* is_active of that server's record: the other records, the record's
\* tags, the tag index, the ToolRegistry, the Router's candidate lists and
\* its load counters stay as they were (so mappings that a health check
\* iteration purged are not put back).
C33_HeartbeatTouchesOnlyItsRecord ==
  [][\A s \in ServerIds :
       (last'.op = "record_heartbeat" /\ Call_record_heartbeat(s))
         => /\ tool_registry' = tool_registry
            /\ router' = router
            /\ service_discovery'.tags_index = service_discovery.tags_index
            /\ service_discovery'.heartbeat_timeout = service_discovery.heartbeat_timeout
            /\ DOMAIN service_discovery'.servers = DOMAIN service_discovery.servers
            /\ \A o \in DOMAIN service_discovery.servers :
                 IF o = s
                 THEN service_discovery'.servers[o] =
                        [ service_discovery.servers[o] EXCEPT !.last_heartbeat = now,
                                                              !.is_active = TRUE ]
                 ELSE service_discovery'.servers[o] = service_discovery.servers[o]]_vars

\* a heartbeat has just brought back a server that was flagged inactive;
\* the server has a tool in the ToolRegistry and is in no candidate list,
\* and another server is registered
C33_Witness ==
  /\ last.op = "record_heartbeat" /\ last.ok /\ ~last.pre_active
  /\ \E s \in DOMAIN service_discovery.servers :
       /\ service_discovery.servers[s].is_active
       /\ service_discovery.servers[s].last_heartbeat = now
       /\ \E o \in DOMAIN service_discovery.servers :
            o # s /\ service_discovery.servers[o].last_heartbeat # now
       /\ \E t \in DOMAIN tool_registry.tools : tool_registry.tools[t].server_id = s
       /\ \A n \in DOMAIN router.tool_to_servers : ~InList(router.tool_to_servers[n], s)

\* C34: while tools are only registered and unregistered, for servers that
\* stay registered and live, server s is in the Router's candidate list of
\* tool name n exactly when some record of the ToolRegistry has name n and
\* server_id s (so s stays a candidate for n when one of two records with
\* that name and server is unregistered).
C34_CandidatesMatchToolRecords ==
  \A n \in Names, s \in ServerIds :
    (n \in DOMAIN router.tool_to_servers /\ InList(router.tool_to_servers[n], s))
      <=> \E t \in DOMAIN tool_registry.tools :
            tool_registry.tools[t].name = n /\ tool_registry.tools[t].server_id = s

\* C35: unregister_server of GlobalMCPServer with an id that has no record
\* in ServiceDiscovery returns False and leaves the ToolRegistry, the
\* ServiceDiscovery and the Router (candidate lists and load counters) as
\* they were.
C35_UnknownServerUnregisterChangesNothing ==
  [][\A s \in ServerIds :
       (/\ last'.op = "unregister_server"
        /\ s \notin DOMAIN service_discovery.servers
        /\ Call_unregister_server(s))
         => /\ ~last'.ok
            /\ tool_registry' = tool_registry
            /\ service_discovery' = service_discovery
            /\ router' = router]_vars

\* C36: in every state of the registry and for every combination of name
\* pattern, tags and server id (each given or not, a server id without
\* tools included), GlobalMCPServer.find_tools and ToolRegistry.find_tools
\* return the same set of tool records.
C36_FindToolsAgree ==
  \A tags \in SUBSET Tags, s \in ServerIds \cup {None}, n \in NamePatterns :
    GlobalMCPServer_find_tools(tool_registry, n, tags, s)
      = ToolRegistry_find_tools(tool_registry, tags, s, n)

\* every tool name of the routing map has a candidate
NoEmptyCandidateList ==
  \A n \in DOMAIN router.tool_to_servers : router.tool_to_servers[n] # << >>

\* C37: remove_tool_mapping(tool, server) leaves the server in the tool's
\* candidate list no more, keeps the other candidates of the tool in their
\* order, drops the tool's entry exactly when no candidate is left, and
\* leaves the other tools' lists and all load counters as they were; and in
\* every reachable state every tool name of the routing map has a
\* non-empty candidate list.
C37_RemoveMappingDropsEmptyEntry ==
  /\ []NoEmptyCandidateList
  /\ [][\A n \in Names, s \in ServerIds :
          (last'.op = "Router.remove_tool_mapping" /\ Call_Router_remove_tool_mapping(n, s))
            => LET before == router.tool_to_servers
                   after == router'.tool_to_servers
                   rest == IF n \in DOMAIN before
                           THEN SelectSeq(before[n], LAMBDA x : x # s) ELSE << >>
               IN /\ (n \in DOMAIN after) <=> (rest # << >>)
                  /\ n \in DOMAIN after => after[n] = rest
                  /\ \A m \in (DOMAIN before) \ {n} : m \in DOMAIN after /\ after[m] = before[m]
                  /\ (DOMAIN after) \ {n} = (DOMAIN before) \ {n}
                  /\ router'.server_load = router.server_load]_vars

\* C38: a selection with a strategy the Router does not recognise returns
\* the first server, in the order of the tool's candidate list, that has a
\* record with is_active set (and None only when the tool has no such
\* candidate).
C38_UnknownStrategyPicksFirstLive ==
  [][\A n \in Names :
       (last'.op = "Router.get_server_for_tool" /\ Call_Router_get_server_for_tool(n, "other"))
         => LET lst == IF n \in DOMAIN router.tool_to_servers
                       THEN router.tool_to_servers[n] ELSE << >>
                live == { i \in 1..Len(lst) : ServiceDiscovery_is_live(service_discovery, lst[i]) }
            IN IF live = {}
               THEN last'.result = None
               ELSE last'.result = lst[CHOOSE i \in live : \A j \in live : i <= j]]_vars

\* a selection with an unrecognised strategy has just returned the second
\* candidate of a list whose first candidate is not live
C38_Witness ==
  /\ last.op = "Router.get_server_for_tool" /\ last.strategy = "other"
  /\ last.name \in DOMAIN router.tool_to_servers
  /\ LET lst == router.tool_to_servers[last.name]
     IN /\ Len(lst) = 2
        /\ lst[1] # lst[2]
        /\ ~ServiceDiscovery_is_live(service_discovery, lst[1])
        /\ last.result = lst[2]
        /\ router.server_load[lst[2]] > 0

\* C39: a selection with the random, the least_loaded or an unrecognised
\* strategy leaves the tool -> servers map as it was (same tool names, same
\* lists in the same order), and a selection with any strategy,
\* round_robin included, leaves the set of tool names and the list of
\* every tool other than the requested one as they were.
C39_OnlyRoundRobinReordersItsList ==
  [][\A n \in Names, st \in Strategies :
       (/\ last'.op = "Router.get_server_for_tool" /\ last'.name = n /\ last'.strategy = st
        /\ Call_Router_get_server_for_tool(n, st))
         => /\ st # "round_robin" => router'.tool_to_servers = router.tool_to_servers
            /\ DOMAIN router'.tool_to_servers = DOMAIN router.tool_to_servers
            /\ \A m \in (DOMAIN router.tool_to_servers) \ {n} :
                 router'.tool_to_servers[m] = router.tool_to_servers[m]]_vars

\* a least_loaded selection has just returned the second candidate of a
\* two-candidate list while another tool has a list of its own
C39_Witness ==
  /\ last.op = "Router.get_server_for_tool" /\ last.strategy = "least_loaded"
  /\ last.name \in DOMAIN router.tool_to_servers
  /\ \E m \in DOMAIN router.tool_to_servers : m # last.name
  /\ LET lst == router.tool_to_servers[last.name]
     IN Len(lst) = 2 /\ lst[1] # lst[2] /\ last.result = lst[2]
====
